---- MODULE Spec2Model ----
(***************************************************************************)
(* A model of dtop, the terminal dashboard for Dask workers.               *)
(*                                                                         *)
(*   src/dtop/workers.py      WorkerInfoModel, WorkerInfoManager,          *)
(*                            WorkerInfoScene (the dashboard in use)       *)
(*   src/dask_top/workers.py  WorkerInfoView._get_memory_label (the older  *)
(*                            copy of the memory formatter)                *)
(*                                                                         *)
(* Two specifications:                                                     *)
(*   Spec     the scene driven by the render loop: one _update per frame,  *)
(*            re-fetching the scheduler's worker table when due.           *)
(*   SpecFmt  the formatting functions applied to bounded inputs.          *)
(*                                                                         *)
(* Numbers.  A byte count is an integer.  A cpu percentage is a float with *)
(* one decimal (what the workers report); it is kept as an integer number  *)
(* of tenths.  A memory utilisation is kept as a reduced fraction          *)
(* <<num, den>>.  A float formatted with ':.2f' is the exact quotient      *)
(* rounded to hundredths; the inputs used here never fall on a rounding    *)
(* tie that is not exactly representable in binary, so the exact quotient  *)
(* and the float round to the same two decimals.                           *)
(* Strings are TLA+ strings, built with \o as the f-strings build them.    *)
(***************************************************************************)
EXTENDS Integers, Sequences, FiniteSets, TLC

VARIABLES
    frame_no,        \* the frame number the screen hands to _update next
    _last_frame,     \* WorkerInfoScene._last_frame
    workers,         \* WorkerInfoManager.workers
    worker_widget,   \* WorkerInfoScene.worker_widget.options
    rollup_widget,   \* WorkerInfoScene.rollup_widget.options
    exc,             \* the exception that left _update ("none": still running)
    first_frame,     \* history: the first frame number the screen delivered
    fetched,         \* history: the response of the latest scheduler_info()
    source_ok,       \* history: FALSE when the latest scheduler_info() raised
    fetch_frames,    \* history: the frames at which _update called _refresh
    fetch_count,     \* history: number of scheduler_info() calls by _update
    rows_fetch,      \* history: the fetch the displayed rows were built from
    rollup_fetch,    \* history: the fetch the displayed rollup was built from
    fmt_in,          \* SpecFmt: the worker handed to a formatter
    fmt_pc,          \* SpecFmt: "input", then the formatter that was applied
    fmt_out,         \* SpecFmt: the string the formatter returned
    label_out        \* SpecFmt: the Label _get_memory_label returned

sceneVars == <<frame_no, _last_frame, workers, worker_widget, rollup_widget, exc,
               first_frame, fetched, source_ok, fetch_frames, fetch_count,
               rows_fetch, rollup_fetch>>
fmtVars == <<fmt_in, fmt_pc, fmt_out, label_out>>
vars == <<sceneVars, fmtVars>>

(***************************************************************************)
(* Bounds                                                                  *)
(***************************************************************************)
\* the last frame number the screen delivers
MaxFrame == 22
\* the largest number of workers in one scheduler response
MaxWorkers == 2
\* the largest cpu value handed to the formatters, in tenths of a percent
MaxCpuTenths == 1510

(***************************************************************************)
(* Python's str(), repr() and ':.2f' on the values that occur              *)
(***************************************************************************)
Digit(d) ==
    CASE d = 0 -> "0" [] d = 1 -> "1" [] d = 2 -> "2" [] d = 3 -> "3"
      [] d = 4 -> "4" [] d = 5 -> "5" [] d = 6 -> "6" [] d = 7 -> "7"
      [] d = 8 -> "8" [] d = 9 -> "9"

RECURSIVE NatToStr(_)
NatToStr(n) ==
    IF n < 10 THEN Digit(n) ELSE NatToStr(n \div 10) \o Digit(n % 10)

\* str(n) of an int
IntToStr(n) ==
    IF n < 0 THEN "-" \o NatToStr(0 - n) ELSE NatToStr(n)

\* str(x) of a float with one decimal, x given in tenths
FloatToStr(tenths) ==
    IntToStr(tenths \div 10) \o "." \o Digit(tenths % 10)

RECURSIVE GCD(_, _)
GCD(a, b) ==
    IF b = 0 THEN a ELSE GCD(b, a % b)

\* the fraction num/den in lowest terms (den > 0)
Frac(num, den) ==
    LET g == GCD(num, den) IN
    IF g = 0 THEN <<0, 1>> ELSE <<num \div g, den \div g>>

FracAdd(p, q) ==
    Frac(p[1] * q[2] + q[1] * p[2], p[2] * q[2])

\* num/den rounded to the nearest integer, ties to even (num >= 0, den > 0)
RoundHalfEven(num, den) ==
    LET q == num \div den
        r == num % den
    IN  IF 2 * r > den THEN q + 1
        ELSE IF 2 * r < den THEN q
        ELSE IF q % 2 = 0 THEN q ELSE q + 1

\* round(num * k / den); the common factor of k and den is cancelled first
\* to keep the product within 32 bits
ScaledRound(num, k, den) ==
    LET g == GCD(k, den) IN RoundHalfEven(num * (k \div g), den \div g)

\* f'{x:.2f}' of a value given in hundredths
Fixed2(hundredths) ==
    IntToStr(hundredths \div 100) \o "." \o Digit((hundredths % 100) \div 10)
        \o Digit(hundredths % 10)

(***************************************************************************)
(* WorkerInfoModel                                                         *)
(***************************************************************************)
InfoKeys == {"memory_limit", "metrics"}
MetricKeys == {"memory", "cpu", "num_fds", "executing", "in_memory", "ready", "in_flight"}

\* from_worker raises KeyError unless every key it indexes is present
HasAllKeys(info) ==
    /\ InfoKeys \subseteq DOMAIN info
    /\ MetricKeys \subseteq DOMAIN info.metrics

from_worker(addr, info) ==
    [addr |-> addr,
     max_memory |-> info.memory_limit,
     current_memory |-> info.metrics.memory,
     cpu |-> info.metrics.cpu,
     fds |-> info.metrics.num_fds,
     executing |-> info.metrics.executing,
     in_memory |-> info.metrics.in_memory,
     ready |-> info.metrics.ready,
     in_flight |-> info.metrics.in_flight]

\* memory_util divides: ZeroDivisionError when max_memory is 0
MemoryUtilRaises(worker) == worker.max_memory = 0

memory_util(worker) == Frac(worker.current_memory, worker.max_memory)

(***************************************************************************)
(* The formatters of WorkerInfoScene                                       *)
(***************************************************************************)
Giga == 1000000000
Mega == 1000000

\* _get_human_readable_byte_count with the unit tests made inclusive
HumanReadableInclusive(byte_count) ==
    IF byte_count >= Giga
    THEN Fixed2(ScaledRound(byte_count, 100, Giga)) \o " GB"
    ELSE IF byte_count >= Mega
    THEN Fixed2(ScaledRound(byte_count, 100, Mega)) \o " MB"
    ELSE "None"

\* returns None (rendered "None" by the f-string) at or below one megabyte
_get_human_readable_byte_count(byte_count) ==
    IF byte_count > Giga
    THEN Fixed2(ScaledRound(byte_count, 100, Giga)) \o " GB"
    ELSE IF byte_count > Mega
    THEN Fixed2(ScaledRound(byte_count, 100, Mega)) \o " MB"
    ELSE "None"

\* _format_cpu with the upper bound of the second branch made exclusive
CpuColorExclusive(cpu_perc) ==
    IF 400 <= cpu_perc /\ cpu_perc < 750 THEN "${3}"
    ELSE IF 750 <= cpu_perc /\ cpu_perc < 1000 THEN "${1}"
    ELSE IF 1000 < cpu_perc THEN "${2}"
    ELSE ""

\* the colour tag chosen by _format_cpu; cpu in tenths of a percent
CpuColor(cpu_perc) ==
    IF 400 <= cpu_perc /\ cpu_perc < 750 THEN "${3}"
    ELSE IF 750 <= cpu_perc /\ cpu_perc <= 1000 THEN "${1}"
    ELSE IF 1000 < cpu_perc THEN "${2}"
    ELSE ""

_format_cpu(worker) == CpuColor(worker.cpu) \o FloatToStr(worker.cpu)

\* the colour tag chosen by _format_mem for a utilisation num/den
MemColor(u) ==
    IF 2 * u[1] >= u[2] /\ 4 * u[1] < 3 * u[2] THEN "${3}"
    ELSE IF 4 * u[1] >= 3 * u[2] /\ u[1] <= u[2] THEN "${1}"
    ELSE ""

\* the text of the memory cell: f'{memory_perc * 100:.2f}% ({mem_used}/{mem_total})'
MemText(worker) ==
    LET u == memory_util(worker) IN
    Fixed2(ScaledRound(u[1], 10000, u[2])) \o "% ("
        \o _get_human_readable_byte_count(worker.current_memory) \o "/"
        \o _get_human_readable_byte_count(worker.max_memory) \o ")"

_format_mem(worker) == MemColor(memory_util(worker)) \o MemText(worker)

(***************************************************************************)
(* dask_top: WorkerInfoView._get_memory_label                              *)
(***************************************************************************)
_get_human_readable_mem(byte_count) ==
    IF byte_count > Giga
    THEN Fixed2(ScaledRound(byte_count, 100, Giga)) \o " GB"
    ELSE IF byte_count > Mega
    THEN Fixed2(ScaledRound(byte_count, 100, Mega)) \o " MB"
    ELSE "None"

\* a Label: its text and its custom_colour ("None" when never set)
_get_memory_label(worker) ==
    LET u == memory_util(worker) IN
    [text |-> Fixed2(ScaledRound(u[1], 10000, u[2])) \o "% ("
                \o _get_human_readable_mem(worker.current_memory) \o "/"
                \o _get_human_readable_mem(worker.max_memory) \o ")",
     custom_colour |->
        IF 0 < u[1] /\ 2 * u[1] < u[2] THEN "low_util"
        ELSE IF 2 * u[1] >= u[2] /\ 4 * u[1] < 3 * u[2] THEN "medium_util"
        ELSE IF 4 * u[1] >= 3 * u[2] /\ u[1] <= u[2] THEN "high_util"
        ELSE "None"]

(***************************************************************************)
(* The telemetry source: Client.scheduler_info()['workers']                *)
(***************************************************************************)
Addrs == {"tcp://10.0.0.1:4001", "tcp://10.0.0.2:4001", "tcp://10.0.0.3:4001"}

Metrics(mem, cpu, fds, ex, im, rd, fl) ==
    [memory |-> mem, cpu |-> cpu, num_fds |-> fds, executing |-> ex,
     in_memory |-> im, ready |-> rd, in_flight |-> fl]

\* the worker entries the scheduler may report: two well-formed ones, one
\* with a zero memory limit, one without 'memory_limit', one without
\* metrics['cpu']
Infos ==
    { [memory_limit |-> 1000000000, metrics |-> Metrics(750000000, 900, 12, 1, 2, 3, 0)],
      [memory_limit |-> 2000000000, metrics |-> Metrics(500000000, 1500, 20, 2, 0, 1, 4)],
      [memory_limit |-> 0, metrics |-> Metrics(250000000, 100, 7, 0, 1, 0, 0)],
      [metrics |-> Metrics(250000000, 100, 7, 0, 1, 0, 0)],
      [memory_limit |-> 1000000000,
       metrics |-> [memory |-> 250000000, num_fds |-> 7, executing |-> 0,
                    in_memory |-> 1, ready |-> 0, in_flight |-> 0]] }

\* a response is the dict's items in iteration order: addresses are distinct,
\* their order is the scheduler's
Responses ==
    UNION { { r \in [1..n -> Addrs \X Infos] :
                \A i, j \in 1..n : i # j => r[i][1] # r[j][1] } : n \in 0..MaxWorkers }

(***************************************************************************)
(* WorkerInfoManager                                                       *)
(***************************************************************************)
\* the list comprehension of _refresh raises KeyError on a malformed entry,
\* before self.workers is assigned
RefreshRaises(worker_info) ==
    \E i \in 1..Len(worker_info) : ~HasAllKeys(worker_info[i][2])

_refresh(worker_info) ==
    [i \in 1..Len(worker_info) |-> from_worker(worker_info[i][1], worker_info[i][2])]

worker_count(ws) == Len(ws)

(***************************************************************************)
(* WorkerInfoScene                                                         *)
(***************************************************************************)
frame_update_count == 20

\* the condition of _update under which the cluster is polled
Due(frame, last) ==
    frame - last >= frame_update_count \/ last = 0

\* one element of worker_options
WorkerOption(worker, idx) ==
    << << worker.addr, _format_cpu(worker), _format_mem(worker), IntToStr(worker.fds),
          IntToStr(worker.executing), IntToStr(worker.in_memory),
          IntToStr(worker.ready), IntToStr(worker.in_flight) >>, idx >>

WorkerOptions(ws) ==
    [i \in 1..Len(ws) |-> WorkerOption(ws[i], i - 1)]

\* _format_mem raises ZeroDivisionError inside the loop
LoopRaises(ws) ==
    \E i \in 1..Len(ws) : MemoryUtilRaises(ws[i])

\* the loop of _update stopping one worker short
TotalButLast(ws, field) ==
    IF Len(ws) <= 1 THEN 0
    ELSE LET F[i \in 0..Len(ws) - 1] == IF i = 0 THEN 0 ELSE F[i - 1] + ws[i][field]
         IN  F[Len(ws) - 1]

\* the running total the loop of _update keeps for one integer field
Total(ws, field) ==
    LET F[i \in 0..Len(ws)] == IF i = 0 THEN 0 ELSE F[i - 1] + ws[i][field]
    IN  F[Len(ws)]

\* mem_total: the sum of the workers' memory_util
MemTotal(ws) ==
    LET F[i \in 0..Len(ws)] ==
            IF i = 0 THEN <<0, 1>> ELSE FracAdd(F[i - 1], memory_util(ws[i]))
    IN  F[Len(ws)]

\* the division by num_workers raises ZeroDivisionError for an empty list
RollupRaises(ws) == Len(ws) = 0

RollupOptions(ws) ==
    LET num_workers == Len(ws)
        mem_total == MemTotal(ws)
    IN  << << << IntToStr(num_workers),
                 Fixed2(RoundHalfEven(Total(ws, "cpu") * 10, num_workers)),
                 Fixed2(ScaledRound(mem_total[1], 10000, mem_total[2] * num_workers)) \o "%",
                 IntToStr(Total(ws, "fds")),
                 IntToStr(Total(ws, "executing")),
                 IntToStr(Total(ws, "in_memory")),
                 IntToStr(Total(ws, "ready")),
                 IntToStr(Total(ws, "in_flight")) >>, 0 >> >>

NoWorker ==
    [addr |-> "", max_memory |-> 1, current_memory |-> 0, cpu |-> 0, fds |-> 0,
     executing |-> 0, in_memory |-> 0, ready |-> 0, in_flight |-> 0]
NoLabel == [text |-> "", custom_colour |-> "None"]

FmtIdle ==
    /\ fmt_in = NoWorker
    /\ fmt_pc = "off"
    /\ fmt_out = ""
    /\ label_out = NoLabel

\* after WorkerInfoManager(c) and WorkerInfoScene(screen, workers): both
\* constructors fetched without raising, nothing is displayed yet
Init ==
    /\ first_frame \in {0, 1}
    /\ frame_no = first_frame
    /\ _last_frame = 0
    /\ \E worker_info \in Responses :
          /\ ~RefreshRaises(worker_info)
          /\ workers = _refresh(worker_info)
          /\ fetched = worker_info
    /\ source_ok = TRUE
    /\ worker_widget = <<>>
    /\ rollup_widget = <<>>
    /\ exc = "none"
    /\ fetch_frames = {}
    /\ fetch_count = 0
    /\ rows_fetch = 0
    /\ rollup_fetch = 0
    /\ FmtIdle

\* _update(frame_no) when no poll is due: only the frame is drawn
UpdateIdle ==
    /\ exc = "none"
    /\ frame_no <= MaxFrame
    /\ ~Due(frame_no, _last_frame)
    /\ frame_no' = frame_no + 1
    /\ UNCHANGED <<_last_frame, workers, worker_widget, rollup_widget, exc, first_frame,
                   fetched, source_ok, fetch_frames, fetch_count, rows_fetch, rollup_fetch>>
    /\ UNCHANGED fmtVars

\* _update(frame_no) when a poll is due and scheduler_info() raises
UpdateSourceRaises ==
    /\ exc = "none"
    /\ frame_no <= MaxFrame
    /\ Due(frame_no, _last_frame)
    /\ _last_frame' = frame_no
    /\ fetch_frames' = fetch_frames \cup {frame_no}
    /\ fetch_count' = fetch_count + 1
    /\ source_ok' = FALSE
    /\ fetched' = <<>>
    /\ exc' = "OSError"
    /\ UNCHANGED <<frame_no, workers, worker_widget, rollup_widget, first_frame,
                   rows_fetch, rollup_fetch>>
    /\ UNCHANGED fmtVars

\* _update(frame_no) when a poll is due and scheduler_info() answers
UpdatePoll ==
    /\ exc = "none"
    /\ frame_no <= MaxFrame
    /\ Due(frame_no, _last_frame)
    /\ _last_frame' = frame_no
    /\ fetch_frames' = fetch_frames \cup {frame_no}
    /\ fetch_count' = fetch_count + 1
    /\ source_ok' = TRUE
    /\ \E worker_info \in Responses :
          /\ fetched' = worker_info
          /\ IF RefreshRaises(worker_info)
             THEN /\ exc' = "KeyError"
                  /\ UNCHANGED <<frame_no, workers, worker_widget, rollup_widget,
                                 rows_fetch, rollup_fetch>>
             ELSE /\ workers' = _refresh(worker_info)
                  /\ IF LoopRaises(workers')
                     THEN /\ exc' = "ZeroDivisionError"
                          /\ UNCHANGED <<frame_no, worker_widget, rollup_widget,
                                         rows_fetch, rollup_fetch>>
                     ELSE /\ worker_widget' = WorkerOptions(workers')
                          /\ rows_fetch' = fetch_count'
                          /\ IF RollupRaises(workers')
                             THEN /\ exc' = "ZeroDivisionError"
                                  /\ UNCHANGED <<frame_no, rollup_widget, rollup_fetch>>
                             ELSE /\ rollup_widget' = RollupOptions(workers')
                                  /\ rollup_fetch' = fetch_count'
                                  /\ exc' = "none"
                                  /\ frame_no' = frame_no + 1
    /\ UNCHANGED first_frame
    /\ UNCHANGED fmtVars

Next == UpdateIdle \/ UpdateSourceRaises \/ UpdatePoll

Spec == Init /\ [][Next]_vars

(***************************************************************************)
(* SpecFmt: the formatters applied to one worker                           *)
(***************************************************************************)
\* byte counts around the unit and tier boundaries; every utilisation they
\* form reduces to a small fraction
MemoryUsedValues ==
    {0, 1000000, 250000000, 490000000, 500000000, 740000000, 750000000,
     1000000000, 1010000000, 1500000000}
MemoryLimitValues == {0, 1000000000, 2000000000}

FmtWorkers ==
    { [addr |-> "tcp://10.0.0.1:4001", max_memory |-> limit, current_memory |-> used,
       cpu |-> cpu, fds |-> 12, executing |-> 1, in_memory |-> 2, ready |-> 3,
       in_flight |-> 0] :
        limit \in MemoryLimitValues, used \in MemoryUsedValues, cpu \in 0..MaxCpuTenths }

InitFmt ==
    /\ fmt_in \in FmtWorkers
    /\ fmt_pc = "input"
    /\ fmt_out = ""
    /\ label_out = NoLabel
    /\ frame_no = 0
    /\ first_frame = 0
    /\ _last_frame = 0
    /\ workers = <<>>
    /\ fetched = <<>>
    /\ source_ok = TRUE
    /\ worker_widget = <<>>
    /\ rollup_widget = <<>>
    /\ exc = "none"
    /\ fetch_frames = {}
    /\ fetch_count = 0
    /\ rows_fetch = 0
    /\ rollup_fetch = 0

Call_format_cpu ==
    /\ fmt_pc = "input"
    /\ fmt_out' = _format_cpu(fmt_in)
    /\ fmt_pc' = "_format_cpu"
    /\ UNCHANGED <<fmt_in, label_out>>
    /\ UNCHANGED sceneVars

Call_format_mem ==
    /\ fmt_pc = "input"
    /\ IF MemoryUtilRaises(fmt_in)
       THEN /\ fmt_pc' = "ZeroDivisionError"
            /\ UNCHANGED fmt_out
       ELSE /\ fmt_out' = _format_mem(fmt_in)
            /\ fmt_pc' = "_format_mem"
    /\ UNCHANGED <<fmt_in, label_out>>
    /\ UNCHANGED sceneVars

Call_get_human_readable_byte_count ==
    /\ fmt_pc = "input"
    /\ fmt_out' = _get_human_readable_byte_count(fmt_in.current_memory)
    /\ fmt_pc' = "_get_human_readable_byte_count"
    /\ UNCHANGED <<fmt_in, label_out>>
    /\ UNCHANGED sceneVars

Call_get_memory_label ==
    /\ fmt_pc = "input"
    /\ IF MemoryUtilRaises(fmt_in)
       THEN /\ fmt_pc' = "ZeroDivisionError"
            /\ UNCHANGED label_out
       ELSE /\ label_out' = _get_memory_label(fmt_in)
            /\ fmt_pc' = "_get_memory_label"
    /\ UNCHANGED <<fmt_in, fmt_out>>
    /\ UNCHANGED sceneVars

NextFmt ==
    \/ Call_format_cpu
    \/ Call_format_mem
    \/ Call_get_human_readable_byte_count
    \/ Call_get_memory_label

SpecFmt == InitFmt /\ [][NextFmt]_vars

(***************************************************************************)
(* Properties of the refresh cycle (Spec)                                  *)
(***************************************************************************)
\* an entry the refresh is expected to skip: a required field is missing or
\* memory_limit <= 0
EntryInvalid(info) ==
    \/ ~HasAllKeys(info)
    \/ info.memory_limit <= 0

InvalidEntries(worker_info) ==
    { i \in 1..Len(worker_info) : EntryInvalid(worker_info[i][2]) }

\* the latest poll by _update got an answer
Polled == fetch_count > 0 /\ source_ok

\* the sum of one metric over the entries of the latest response
RECURSIVE FetchedSum(_, _)
FetchedSum(key, n) ==
    IF n = 0 THEN 0 ELSE FetchedSum(key, n - 1) + fetched[n][2].metrics[key]

\* the cells of the displayed rollup row
RollupCells == rollup_widget[1][1]

\* addresses in ascending string order
AddrOrder == <<"tcp://10.0.0.1:4001", "tcp://10.0.0.2:4001", "tcp://10.0.0.3:4001">>
AddrRank(a) == CHOOSE i \in 1..Len(AddrOrder) : AddrOrder[i] = a

\* C1: when the screen counts frames from 0, the cluster is polled on frame
\* 0 and on every 20th frame after it, and on no frame in between.
C1_PollEveryTwentiethFrame ==
    first_frame = 0 => \A t \in fetch_frames : t % frame_update_count = 0

\* C2: when scheduler_info() fails during a poll, no exception leaves
\* _update: the scene keeps running on the rows and rollup it displayed.
C2_SourceFailureContained ==
    (fetch_count > 0 /\ ~source_ok) => exc = "none"

\* C3: a response with zero workers completes the refresh without a
\* division by zero, and the rollup shows count 0, averages 0 and sums 0.
C3_EmptyClusterRollup ==
    (Polled /\ fetched = <<>>) =>
        /\ exc = "none"
        /\ rollup_widget = << << << "0", "0.00", "0.00%", "0", "0", "0", "0", "0" >>, 0 >> >>

\* C4: after any number of polls, when the latest response is valid and has
\* N >= 1 workers the refresh completes and the rollup shows N and, for file
\* descriptors, executing, in-memory, ready and in-flight, the sum of that
\* metric over the N entries of the latest response and nothing else.
C4_RollupFromLatestResponse ==
    (Polled /\ Len(fetched) >= 1 /\ InvalidEntries(fetched) = {}) =>
        /\ exc = "none"
        /\ Len(rollup_widget) = 1
        /\ RollupCells[1] = IntToStr(Len(fetched))
        /\ RollupCells[4] = IntToStr(FetchedSum("num_fds", Len(fetched)))
        /\ RollupCells[5] = IntToStr(FetchedSum("executing", Len(fetched)))
        /\ RollupCells[6] = IntToStr(FetchedSum("in_memory", Len(fetched)))
        /\ RollupCells[7] = IntToStr(FetchedSum("ready", Len(fetched)))
        /\ RollupCells[8] = IntToStr(FetchedSum("in_flight", Len(fetched)))

\* a second poll answered by a single worker, after a first poll that
\* displayed at least one
C4_Witness ==
    /\ fetch_count >= 2
    /\ exc = "none"
    /\ Len(fetched) = 1
    /\ RollupCells[1] = "1"
    /\ RollupCells[4] = "20"
    /\ RollupCells[8] = "4"

\* C5: after every refresh the displayed rows are in ascending order of
\* address, whatever order the scheduler returned the entries in.
C5_RowsSortedByAddress ==
    \A i, j \in 1..Len(worker_widget) :
        i < j => AddrRank(worker_widget[i][1][1]) < AddrRank(worker_widget[j][1][1])

\* C6: an entry lacking a required field or with memory_limit <= 0 is
\* dropped without failing the refresh, and every other entry of the same
\* response is displayed.
C6_InvalidEntriesDropped ==
    (Polled /\ InvalidEntries(fetched) # {} /\ InvalidEntries(fetched) # DOMAIN fetched) =>
        /\ exc = "none"
        /\ { worker_widget[i][1][1] : i \in DOMAIN worker_widget }
              = { fetched[i][1] : i \in DOMAIN fetched \ InvalidEntries(fetched) }

\* C7: whenever _update has returned or raised, the displayed rows and the
\* displayed rollup were built from the same response.
C7_RowsAndRollupSameFetch ==
    rows_fetch = rollup_fetch

(***************************************************************************)
(* Properties of the formatters (SpecFmt)                                  *)
(***************************************************************************)
\* the colour tags standing for the severity tiers in a cell
NeutralTag == ""
MediumTag == "${3}"
HighTag == "${1}"
OverloadedTag == "${2}"

\* _format_mem has been applied to a worker using 750,000,000 of
\* 1,000,000,000 bytes
C8_Witness ==
    /\ fmt_pc = "_format_mem"
    /\ fmt_in.current_memory = 750000000
    /\ fmt_in.max_memory = 1000000000

\* C8 as stated: the memory cell of a worker using 750,000,000 of
\* 1,000,000,000 bytes is tagged high and reads "75.00% (750.00 MB/1.00 GB)".
C8_MemoryCellExample ==
    C8_Witness => fmt_out = HighTag \o "75.00% (750.00 MB/1.00 GB)"

\* C8, amended: that cell is tagged high and reads
\* "75.00% (750.00 MB/1000.00 MB)": a byte count is rendered in GB only
\* when n/1e9 > 1, and 1,000,000,000/1e9 is exactly 1.
C8_MemoryCellAmended ==
    (fmt_pc = "_format_mem" /\ fmt_in.current_memory = 750000000
        /\ fmt_in.max_memory = 1000000000) =>
        fmt_out = HighTag \o "75.00% (750.00 MB/1000.00 MB)"

\* the tier the memory rule assigns to a utilisation num/den
MemTier(u) ==
    IF 0 < u[1] /\ 2 * u[1] < u[2] THEN "low"
    ELSE IF 2 * u[1] >= u[2] /\ 4 * u[1] < 3 * u[2] THEN "medium"
    ELSE IF 4 * u[1] >= 3 * u[2] /\ u[1] <= u[2] THEN "high"
    ELSE "neutral"

\* C9: the memory cell is tagged low for 0 < util < 0.5, medium for
\* 0.5 <= util < 0.75, high for 0.75 <= util <= 1.0 and is untagged for
\* util = 0 or util > 1.0, the four tags being pairwise distinct; in the
\* scene's cell the low tag is any tag other than the neutral, medium and
\* high ones.
C9_MemoryTiers ==
    /\ fmt_pc = "_format_mem" =>
          LET tier == MemTier(memory_util(fmt_in)) IN
          /\ tier = "neutral" => fmt_out = NeutralTag \o MemText(fmt_in)
          /\ tier = "medium" => fmt_out = MediumTag \o MemText(fmt_in)
          /\ tier = "high" => fmt_out = HighTag \o MemText(fmt_in)
          /\ tier = "low" => fmt_out \notin { NeutralTag \o MemText(fmt_in),
                                              MediumTag \o MemText(fmt_in),
                                              HighTag \o MemText(fmt_in) }
    /\ fmt_pc = "_get_memory_label" =>
          LET tier == MemTier(memory_util(fmt_in)) IN
          /\ tier = "neutral" => label_out.custom_colour = "None"
          /\ tier = "low" => label_out.custom_colour = "low_util"
          /\ tier = "medium" => label_out.custom_colour = "medium_util"
          /\ tier = "high" => label_out.custom_colour = "high_util"

\* the tier the cpu rule assigns to a percentage given in tenths
CpuTier(v) ==
    IF v < 400 THEN "neutral"
    ELSE IF v < 750 THEN "medium"
    ELSE IF v <= 1000 THEN "high"
    ELSE "overloaded"

TagOfTier(tier) ==
    CASE tier = "neutral" -> NeutralTag
      [] tier = "medium" -> MediumTag
      [] tier = "high" -> HighTag
      [] tier = "overloaded" -> OverloadedTag

\* C10: the cpu cell is untagged below 40, tagged medium for 40 <= v < 75,
\* high for 75 <= v <= 100 and overloaded above 100; the four tags are
\* pairwise distinct, so each value carries exactly one of them.
C10_CpuTiers ==
    /\ Cardinality({NeutralTag, MediumTag, HighTag, OverloadedTag}) = 4
    /\ fmt_pc = "_format_cpu" =>
          fmt_out = TagOfTier(CpuTier(fmt_in.cpu)) \o FloatToStr(fmt_in.cpu)

\* cpu_percent = 150 has been formatted as overloaded
C10_Witness ==
    /\ fmt_pc = "_format_cpu"
    /\ fmt_in.cpu = 1500
    /\ fmt_out = "${2}150.0"

====
